---- MODULE Spec2Model ----
(***************************************************************************)
(* Model of the PRTG data source plugin: query dispatch, the regular      *)
(* (request/response) path through PrtgApi.getSensorHistory, the          *)
(* streaming path through the live-channel transport, and the rxjs merge  *)
(* of both into the response channel returned by DataSource.query.        *)
(*                                                                         *)
(* JavaScript values are modelled with uniform records so that TLC can     *)
(* compare them: `undefined` is the string "undefined", a Date is          *)
(* [nan, secs, millis], an optional boolean is "undefined"/"true"/"false". *)
(***************************************************************************)
EXTENDS Integers, Sequences, FiniteSets, TLC

(***************************************************************************)
(* Bounds of the model                                                     *)
(***************************************************************************)
MaxTargets == 2
MaxPushes == 3
MaxRows == 3
MaxEdits == 4

(***************************************************************************)
(* JavaScript helpers                                                      *)
(***************************************************************************)
Undefined == "undefined"

\* truthiness of an optional string (query.sensorId, query.channel, ...)
TruthyStr(s) == s # "" /\ s # Undefined

\* a || b on optional strings
OrStr(a, b) == IF TruthyStr(a) THEN a ELSE b

RECURSIVE Join(_, _)
Join(parts, sep) ==
  IF parts = <<>> THEN ""
  ELSE IF Len(parts) = 1 THEN parts[1]
       ELSE parts[1] \o sep \o Join(Tail(parts), sep)

RECURSIVE Flatten(_)
Flatten(seqs) ==
  IF seqs = <<>> THEN <<>> ELSE Head(seqs) \o Flatten(Tail(seqs))

SeqToSet(seq) == {seq[i] : i \in DOMAIN seq}

(***************************************************************************)
(* types.ts                                                                *)
(***************************************************************************)
Metrics == "metrics"
QueryType == {"metrics", "raw", "text", "manual"}

DEFAULT_QUERY ==
  [ refId |-> "A", queryType |-> Metrics, isStreaming |-> Undefined,
    group |-> "", device |-> "device", sensor |-> "", sensorId |-> "",
    channel |-> "", channelArray |-> [isArray |-> TRUE, items |-> <<"channel">>],
    panelId |-> Undefined,
    includeGroupName |-> FALSE, includeDeviceName |-> FALSE,
    includeSensorName |-> FALSE,
    cacheTime |-> Undefined, updateMode |-> Undefined, bufferSize |-> Undefined ]

(***************************************************************************)
(* Dates.  A Date is [nan, secs, millis]: whole seconds since the epoch    *)
(* and the milliseconds within the second (kept apart so that a 720 hour   *)
(* range fits the integers of the checker).                                *)
(***************************************************************************)
NaNDate == [nan |-> TRUE, secs |-> 0, millis |-> 0]
MkDate(s, ms) == [nan |-> FALSE, secs |-> s, millis |-> ms]

\* Date.prototype.toISOString: "YYYY-MM-DDTHH:mm:ss.sssZ" (24 characters).
\* The text is kept as the instant it spells plus the separators it uses.
toISOString(d) ==
  [ secs |-> d.secs, millis |-> d.millis, hasMillis |-> TRUE,
    dateTimeSep |-> "T", timeSep |-> ":", fracSep |-> ".", zone |-> "Z" ]

\* .replace(/[:.]/g, '-')
ReplaceColonDot(s) == [s EXCEPT !.timeSep = "-", !.fracSep = "-"]

\* .slice(0, 19): keeps "YYYY-MM-DDTHH-mm-ss", drops the fraction and the "Z"
Slice19(s) == [s EXCEPT !.millis = 0, !.hasMillis = FALSE, !.zone = ""]

\* range.from.toISOString().replace(/[:.]/g, '-').slice(0, 19)
FormatDate(d) == Slice19(ReplaceColonDot(toISOString(d)))

\* The text is an ECMAScript date-time string (the only format Date.parse
\* is required to read).
IsISOFormat(s) == s.dateTimeSep = "T" /\ s.timeSep = ":" /\ s.fracSep = "."

\* new Date(text).  A text in the ISO format gives its instant.  For any
\* other text the result is implementation-defined: the engine answers
\* Invalid Date (lenient = FALSE) or reads the digits with its legacy
\* heuristics (lenient = TRUE).
ParseDate(s, lenient) ==
  IF IsISOFormat(s) \/ lenient THEN MkDate(s.secs, s.millis) ELSE NaNDate

\* a comparison that lets a range equal to the threshold through
HoursAtLeast(start, end, h) ==
  /\ ~start.nan
  /\ ~end.nan
  /\ \/ end.secs - start.secs > h * 3600
     \/ end.secs - start.secs = h * 3600 /\ end.millis - start.millis >= 0

\* hours > h, where hours = (end.getTime() - start.getTime()) / (1000*60*60);
\* every comparison with NaN is false
HoursGreater(start, end, h) ==
  /\ ~start.nan
  /\ ~end.nan
  /\ \/ end.secs - start.secs > h * 3600
     \/ end.secs - start.secs = h * 3600 /\ end.millis - start.millis > 0

(***************************************************************************)
(* api.ts: PrtgApi                                                         *)
(***************************************************************************)
\* Number(target.sensorId) for the sensor ids of the model
NumericStrings == [s \in {"0", "42", "7"} |-> CASE s = "0" -> 0 [] s = "42" -> 42 [] s = "7" -> 7]

ToNumber(s) ==
  IF s = "" THEN [nan |-> FALSE, n |-> 0]
  ELSE IF s \in DOMAIN NumericStrings THEN [nan |-> FALSE, n |-> NumericStrings[s]]
       ELSE [nan |-> TRUE, n |-> 0]

\* sensorId.toString()
NumberToString(x) ==
  IF x.nan THEN "NaN"
  ELSE CHOOSE s \in DOMAIN NumericStrings : NumericStrings[s] = x.n

\* the avg bucket chosen by getSensorHistory for the parsed dates
SelectAvg(start, end) ==
  IF HoursGreater(start, end, 720) THEN "86400"
  ELSE IF HoursGreater(start, end, 336) THEN "3600"
  ELSE IF HoursGreater(start, end, 168) THEN "1800"
  ELSE IF HoursGreater(start, end, 72) THEN "900"
  ELSE IF HoursGreater(start, end, 48) THEN "600"
  ELSE IF HoursGreater(start, end, 24) THEN "300"
  ELSE IF HoursGreater(start, end, 12) THEN "120"
  ELSE "0"

\* a request that only refuses the status 403
baseExecuteRequestOnly403(fetch) ==
  IF fetch.transport = "fail"
    THEN [threw |-> TRUE, error |-> "transport", data |-> fetch.body]
  ELSE IF fetch.transport = "empty" \/ fetch.status = 403
    THEN [threw |-> TRUE, error |-> "Access denied: please verify API token and permissions",
          data |-> fetch.body]
  ELSE [threw |-> FALSE, error |-> "", data |-> fetch.body]

\* baseExecuteRequest: the outcome of one GET.  fetch is what the backend
\* service does with the request: transport "fail" (the fetch rejects),
\* "empty" (no response object) or "ok" with a status and a decoded body.
baseExecuteRequest(fetch) ==
  IF fetch.transport = "fail"
    THEN [threw |-> TRUE, error |-> "transport", data |-> fetch.body]
  ELSE IF fetch.transport = "empty" \/ fetch.status = 403
    THEN [threw |-> TRUE, error |-> "Access denied: please verify API token and permissions",
          data |-> fetch.body]
  ELSE IF fetch.status # 200
    THEN [threw |-> TRUE, error |-> "Unexpected status code: " \o ToString(fetch.status),
          data |-> fetch.body]
  ELSE [threw |-> FALSE, error |-> "", data |-> fetch.body]

\* a field of a decoded body: absent, an array of rows, or a single object
NoField == [kind |-> "undefined", rows |-> <<>>]
ArrayField(rows) == [kind |-> "array", rows |-> rows]
ObjectField == [kind |-> "object", rows |-> <<>>]
FieldTruthy(f) == f.kind # "undefined"

\* getSensorHistory(sensorId, startDate, endDate): the requests it issues
\* and the value it resolves to, or the error it throws
getSensorHistory(sensorId, startDate, endDate, fetch, lenient) ==
  IF sensorId.nan \/ sensorId.n = 0
    THEN [threw |-> TRUE, error |-> "sensorId parameter is required",
          value |-> NoField, requests |-> <<>>]
  ELSE
    LET start == ParseDate(startDate, lenient)
        end == ParseDate(endDate, lenient)
        params == [ endpoint |-> "historicdata.json",
                    id |-> NumberToString(sensorId),
                    avg |-> SelectAvg(start, end),
                    sdate |-> startDate, edate |-> endDate,
                    columns |-> "datetime,value_", usecaption |-> "1",
                    count |-> "50000" ]
        response == baseExecuteRequest(fetch)
    IN IF response.threw
         THEN [threw |-> TRUE, error |-> response.error,
               value |-> NoField, requests |-> <<params>>]
       ELSE IF response.data.isNull
         THEN [threw |-> TRUE, error |-> "TypeError",
               value |-> NoField, requests |-> <<params>>]
       ELSE [threw |-> FALSE, error |-> "",
             value |-> IF FieldTruthy(response.data.channels) THEN response.data.channels
                       ELSE IF FieldTruthy(response.data.histdata) THEN response.data.histdata
                       ELSE ArrayField(<<>>),
             requests |-> <<params>>]

\* response.<field> || []: a TypeError when the decoded body is null
FieldOrEmpty(response, field, requests) ==
  IF response.threw
    THEN [threw |-> TRUE, error |-> response.error, value |-> NoField,
          requests |-> requests]
  ELSE IF response.data.isNull
    THEN [threw |-> TRUE, error |-> "TypeError", value |-> NoField,
          requests |-> requests]
  ELSE [threw |-> FALSE, error |-> "",
        value |-> IF FieldTruthy(response.data[field]) THEN response.data[field]
                  ELSE ArrayField(<<>>),
        requests |-> requests]

TableColumns == "active,channel,datetime,device,group,message,objid,priority,sensor,status,tags"

\* the parameters of a table.json / historicdata.json lookup
TableParams(content, filter) ==
  [endpoint |-> "table.json", content |-> content, columns |-> TableColumns,
   count |-> "50000", filter |-> filter]

getGroupList(fetch) ==
  FieldOrEmpty(baseExecuteRequest(fetch), "groups", <<TableParams("groups", "")>>)

getDevices(group, fetch) ==
  IF ~TruthyStr(group)
    THEN [threw |-> TRUE, error |-> "group parameter is required",
          value |-> NoField, requests |-> <<>>]
  ELSE FieldOrEmpty(baseExecuteRequest(fetch), "devices", <<TableParams("devices", group)>>)

getSensors(device, fetch) ==
  IF ~TruthyStr(device)
    THEN [threw |-> TRUE, error |-> "device parameter is required",
          value |-> NoField, requests |-> <<>>]
  ELSE FieldOrEmpty(baseExecuteRequest(fetch), "sensors", <<TableParams("sensors", device)>>)

getChannels(objid, fetch) ==
  FieldOrEmpty(baseExecuteRequest(fetch), "channels",
               << [endpoint |-> "historicdata.json", content |-> "values",
                   columns |-> "value_,datetime", count |-> "", filter |-> objid] >>)

\* getStatusList: the decoded body of status.json, whatever it is
getStatusList(fetch) ==
  LET response == baseExecuteRequest(fetch)
  IN [threw |-> response.threw, error |-> response.error, value |-> response.data,
      requests |-> << [endpoint |-> "status.json", content |-> "", columns |-> "",
                       count |-> "", filter |-> ""] >>]

(***************************************************************************)
(* datasource.ts: the regular path of DataSource.query                     *)
(***************************************************************************)
\* A history row is [datetime, cells]: the datetime field is "absent",
\* "empty" (a falsy text), "valid" (a text new Date reads, with its instant)
\* or "invalid" (a text new Date cannot read); cells are the other
\* key/value pairs in the order of the object's keys.
RowTime(row) ==
  IF row.datetime.kind = "valid" THEN MkDate(row.datetime.secs, 0) ELSE NaNDate

\* item.datetime is truthy
HasDatetime(row) == row.datetime.kind \in {"valid", "invalid"}

\* parseFloat of the texts of the model: the number a text starts with
NumericPrefix == [s \in {"7", "3x"} |-> IF s = "7" THEN 7 ELSE 3]

\* a coercion that gives 0 for everything that is not a number already
CoerceValueNumbersOnly(v) == IF v.type = "number" THEN v.num ELSE 0

\* typeof value === 'number' ? value : parseFloat(value as string) || 0
CoerceValue(v) ==
  IF v.type = "number" THEN v.num
  ELSE IF v.type = "string" /\ v.str \in DOMAIN NumericPrefix THEN NumericPrefix[v.str]
       ELSE 0

\* the forEach over one row's entries: keys in first-seen order, and the
\* values pushed so far for every key
RECURSIVE PushCells(_, _)
PushCells(acc, cells) ==
  IF cells = <<>> THEN acc
  ELSE
    LET c == Head(cells)
        known == c.key \in SeqToSet(acc.keys)
        keys == IF known THEN acc.keys ELSE Append(acc.keys, c.key)
        old == IF known THEN acc.values[c.key] ELSE <<>>
        vals == [k \in SeqToSet(keys) |->
                   IF k = c.key THEN Append(old, CoerceValue(c.value))
                   ELSE acc.values[k]]
    IN PushCells([acc EXCEPT !.keys = keys, !.values = vals], Tail(cells))

\* histDataArray.forEach(...): the time axis and the per-channel values
RECURSIVE Accumulate(_, _)
Accumulate(acc, rows) ==
  IF rows = <<>> THEN acc
  ELSE
    LET row == Head(rows)
    IN IF HasDatetime(row)
         THEN Accumulate(
                PushCells([acc EXCEPT !.times = Append(acc.times, RowTime(row))],
                          row.cells),
                Tail(rows))
       ELSE Accumulate(acc, Tail(rows))

EmptyAcc == [times |-> <<>>, keys |-> <<>>, values |-> [k \in {} |-> <<>>]]

\* a prefix made of every non-empty label, whatever the flags
NamePrefixAnyLabel(target) ==
  LET parts ==
        (IF TruthyStr(target.group) THEN <<target.group>> ELSE <<>>)
        \o (IF TruthyStr(target.device) THEN <<target.device>> ELSE <<>>)
        \o (IF TruthyStr(target.sensor) THEN <<target.sensor>> ELSE <<>>)
  IN IF Len(parts) > 0 THEN Join(parts, " - ") \o " - " ELSE ""

\* the display prefix of a target's series names
NamePrefix(target) ==
  LET parts ==
        (IF target.includeGroupName /\ TruthyStr(target.group)
           THEN <<target.group>> ELSE <<>>)
        \o (IF target.includeDeviceName /\ TruthyStr(target.device)
              THEN <<target.device>> ELSE <<>>)
        \o (IF target.includeSensorName /\ TruthyStr(target.sensor)
              THEN <<target.sensor>> ELSE <<>>)
  IN IF Len(parts) > 0 THEN Join(parts, " - ") \o " - " ELSE ""

\* a normaliser that keeps the samples of each series newest first
FramesOfNewestFirst(target, histData) ==
  IF histData.kind # "array" \/ Len(histData.rows) = 0 THEN <<>>
  ELSE
    LET acc == Accumulate(EmptyAcc, histData.rows)
    IN [i \in 1..Len(acc.keys) |->
          [ refId |-> target.refId,
            name |-> NamePrefix(target) \o acc.keys[i],
            times |-> acc.times,
            values |-> [n \in DOMAIN acc.values[acc.keys[i]] |->
                          acc.values[acc.keys[i]][Len(acc.values[acc.keys[i]]) + 1 - n]] ]]

\* one frame per channel key, for the rows of a history response
FramesOf(target, histData) ==
  IF histData.kind # "array" \/ Len(histData.rows) = 0 THEN <<>>
  ELSE
    LET acc == Accumulate(EmptyAcc, histData.rows)
    IN [i \in 1..Len(acc.keys) |->
          [ refId |-> target.refId,
            name |-> NamePrefix(target) \o acc.keys[i],
            times |-> acc.times,
            values |-> acc.values[acc.keys[i]] ]]

\* a per-target function without the try/catch: a failed fetch rejects
RegularResultNoCatch(target, range, fetch, lenient) ==
  IF target.queryType = Metrics /\ TruthyStr(target.sensorId)
    THEN
      LET hist == getSensorHistory(ToNumber(target.sensorId),
                                   FormatDate(range.from), FormatDate(range.to),
                                   fetch, lenient)
      IN [refId |-> target.refId,
          data |-> IF hist.threw THEN <<>> ELSE FramesOf(target, hist.value),
          requests |-> hist.requests, failed |-> hist.threw, rejected |-> hist.threw]
  ELSE [refId |-> target.refId, data |-> <<>>, requests |-> <<>>,
        failed |-> FALSE, rejected |-> FALSE]

\* a per-target function that fetches the history of every target with a
\* sensor, whatever its type
RegularResultAnyType(target, range, fetch, lenient) ==
  IF TruthyStr(target.sensorId)
    THEN
      LET hist == getSensorHistory(ToNumber(target.sensorId),
                                   FormatDate(range.from), FormatDate(range.to),
                                   fetch, lenient)
      IN IF hist.threw
           THEN [refId |-> target.refId, data |-> <<>>, requests |-> hist.requests,
                 failed |-> TRUE, rejected |-> FALSE]
         ELSE [refId |-> target.refId, data |-> FramesOf(target, hist.value),
               requests |-> hist.requests, failed |-> FALSE, rejected |-> FALSE]
  ELSE [refId |-> target.refId, data |-> <<>>, requests |-> <<>>,
        failed |-> FALSE, rejected |-> FALSE]

\* the async function mapped over regularTargets: the result of one target
\* and the requests it issued
RegularResult(target, range, fetch, lenient) ==
  IF target.queryType = Metrics /\ TruthyStr(target.sensorId)
    THEN
      LET hist == getSensorHistory(ToNumber(target.sensorId),
                                   FormatDate(range.from), FormatDate(range.to),
                                   fetch, lenient)
      IN IF hist.threw
           THEN [refId |-> target.refId, data |-> <<>>, requests |-> hist.requests,
                 failed |-> TRUE, rejected |-> FALSE]
         ELSE [refId |-> target.refId, data |-> FramesOf(target, hist.value),
               requests |-> hist.requests, failed |-> FALSE, rejected |-> FALSE]
  ELSE [refId |-> target.refId, data |-> <<>>, requests |-> <<>>,
        failed |-> FALSE, rejected |-> FALSE]

(***************************************************************************)
(* datasource.ts: dispatch                                                 *)
(***************************************************************************)
\* a dispatcher that sends every streaming-flagged query away from the
\* regular set, whatever its type
IsRegularTargetFlagOnly(query) == ~(query.isStreaming = "true")

IsStreamingTarget(query) == query.isStreaming = "true" /\ query.queryType = Metrics
IsRegularTarget(query) == ~(query.isStreaming = "true") \/ query.queryType # Metrics

StreamingTargets(targets) == SelectSeq(targets, IsStreamingTarget)
RegularTargets(targets) == SelectSeq(targets, IsRegularTarget)

\* a derivation that joins the components without dropping the empty ones
getStreamIdKeepEmpty(query) ==
  LET components ==
        << OrStr(query.panelId, "default"),
           OrStr(query.refId, "A"),
           OrStr(query.sensorId, ""),
           IF query.channelArray.isArray
             THEN Join(query.channelArray.items, "-")
             ELSE OrStr(query.channel, "") >>
  IN Join(components, "_")

\* getStreamId
getStreamId(query) ==
  LET components ==
        << OrStr(query.panelId, "default"),
           OrStr(query.refId, "A"),
           OrStr(query.sensorId, ""),
           IF query.channelArray.isArray
             THEN Join(query.channelArray.items, "-")
             ELSE OrStr(query.channel, "") >>
  IN Join(SelectSeq(components, TruthyStr), "_")

(***************************************************************************)
(* datasource.ts: the lookups and the connectivity check                   *)
(***************************************************************************)
NotCalled == [threw |-> FALSE, error |-> "", value |-> NoField, requests |-> <<>>]

\* a lookup refused by the data source itself, before the client is called
Refused(message) ==
  [ threw |-> TRUE, error |-> message, requests |-> <<>>,
    apiCalled |-> FALSE, api |-> NotCalled,
    items |-> NoField, treesize |-> [defined |-> FALSE, n |-> 0] ]

\* { prtgversion: '', treesize: items.length, <name>: items } around the
\* client's answer; asArray is the Array.isArray(...) ? ... : [x].filter(Boolean)
\* of getSensors and getChannels
Listed(api, asArray) ==
  IF api.threw
    THEN [ threw |-> TRUE, error |-> api.error, requests |-> api.requests,
           apiCalled |-> TRUE, api |-> api,
           items |-> NoField, treesize |-> [defined |-> FALSE, n |-> 0] ]
  ELSE
    LET items == IF asArray /\ api.value.kind # "array"
                   THEN ArrayField(<<api.value>>) ELSE api.value
    IN [ threw |-> FALSE, error |-> "", requests |-> api.requests,
         apiCalled |-> TRUE, api |-> api, items |-> items,
         treesize |-> IF items.kind = "array"
                        THEN [defined |-> TRUE, n |-> Len(items.rows)]
                      ELSE [defined |-> FALSE, n |-> 0] ]

DataSource_getGroups(fetch) == Listed(getGroupList(fetch), FALSE)

DataSource_getDevices(group, fetch) ==
  IF ~TruthyStr(group) THEN Refused("group is required")
  ELSE Listed(getDevices(group, fetch), FALSE)

DataSource_getSensors(device, fetch) ==
  IF ~TruthyStr(device) THEN Refused("device is required")
  ELSE Listed(getSensors(device, fetch), TRUE)

\* a channel lookup that leaves the test of the sensor id to the client
DataSource_getChannelsUnchecked(sensorId, fetch) ==
  Listed(getChannels(sensorId, fetch), TRUE)

DataSource_getChannels(sensorId, fetch) ==
  IF ~TruthyStr(sensorId) THEN Refused("sensorId is required")
  ELSE Listed(getChannels(sensorId, fetch), TRUE)

\* the decoded body of status.json is truthy
BodyTruthy(body) == ~body.isNull /\ body.kind # "emptyText"

\* a connectivity check that trusts every answered request
testDatasourceAnyAnswer(fetch, rejectsWithError) ==
  LET status == getStatusList(fetch)
      isError == fetch.transport # "fail" \/ rejectsWithError
  IN IF status.threw
       THEN [ threw |-> FALSE, status |-> "error",
              message |-> "Error connecting to PRTG Server"
                          \o (IF isError THEN ": " \o status.error ELSE ""),
              api |-> status, requests |-> status.requests ]
     ELSE [ threw |-> FALSE, status |-> "success",
            message |-> "Success - Connected to PRTG Server",
            api |-> status, requests |-> status.requests ]

\* testDatasource; rejectsWithError: the value a failed transport rejects
\* with is an Error (the errors thrown by baseExecuteRequest always are)
testDatasource(fetch, rejectsWithError) ==
  LET status == getStatusList(fetch)
      isError == fetch.transport # "fail" \/ rejectsWithError
  IN IF status.threw
       THEN [ threw |-> FALSE, status |-> "error",
              message |-> "Error connecting to PRTG Server"
                          \o (IF isError THEN ": " \o status.error ELSE ""),
              api |-> status, requests |-> status.requests ]
     ELSE IF BodyTruthy(status.value)
       THEN [ threw |-> FALSE, status |-> "success",
              message |-> "Success - Connected to PRTG Server",
              api |-> status, requests |-> status.requests ]
     ELSE [ threw |-> FALSE, status |-> "error",
            message |-> "Failed to connect to PRTG Server",
            api |-> status, requests |-> status.requests ]

(***************************************************************************)
(* datasource.ts: getAnnotations                                           *)
(***************************************************************************)
NoValue == [type |-> "undefined", num |-> 0, str |-> ""]

\* data.value_
RawValue(row) ==
  IF \E c \in DOMAIN row.cells : row.cells[c].key = "value_"
    THEN row.cells[CHOOSE c \in DOMAIN row.cells : row.cells[c].key = "value_"].value
  ELSE NoValue

\* the event made of the sample at index i (counted from 0)
AnnotationOf(sensorId, data, i) ==
  [ id |-> "uid:" \o sensorId \o "_" \o ToString(i),
    time |-> RowTime(data), timeEnd |-> RowTime(data),
    title |-> "Sensor: " \o sensorId,
    tags |-> <<"prtg", "sensor:" \o sensorId>>,
    type |-> "annotation",
    data |-> RawValue(data) ]

Min(a, b) == IF a < b THEN a ELSE b

\* an avg computation whose 14-day threshold is 15 days
AnnotationAvgFifteenDays(fromTime, toTime) ==
  IF HoursGreater(fromTime, toTime, 720) THEN "86400"
  ELSE IF HoursGreater(fromTime, toTime, 360) THEN "3600"
  ELSE IF HoursGreater(fromTime, toTime, 168) THEN "1800"
  ELSE IF HoursGreater(fromTime, toTime, 72) THEN "900"
  ELSE IF HoursGreater(fromTime, toTime, 48) THEN "600"
  ELSE IF HoursGreater(fromTime, toTime, 24) THEN "300"
  ELSE IF HoursGreater(fromTime, toTime, 12) THEN "120"
  ELSE "0"

\* the avg getAnnotations computes itself, from the Date objects of the
\* query (hours = (toTime.getTime() - fromTime.getTime()) / 3600000)
AnnotationAvg(fromTime, toTime) ==
  IF HoursGreater(fromTime, toTime, 720) THEN "86400"
  ELSE IF HoursGreater(fromTime, toTime, 336) THEN "3600"
  ELSE IF HoursGreater(fromTime, toTime, 168) THEN "1800"
  ELSE IF HoursGreater(fromTime, toTime, 72) THEN "900"
  ELSE IF HoursGreater(fromTime, toTime, 48) THEN "600"
  ELSE IF HoursGreater(fromTime, toTime, 24) THEN "300"
  ELSE IF HoursGreater(fromTime, toTime, 12) THEN "120"
  ELSE "0"

\* const params = {...}: built by getAnnotations and not used afterwards
AnnotationParams(query) ==
  [ endpoint |-> "historicdata.json", id |-> query.sensorId,
    avg |-> AnnotationAvg(query.from, query.to),
    sdate |-> FormatDate(query.from), edate |-> FormatDate(query.to),
    columns |-> "datetime,value_", usecaption |-> "1", count |-> "50000" ]

\* an adapter that returns every event whatever the limit
getAnnotationsUnlimited(query, fetch, lenient) ==
  LET response == getSensorHistory(ToNumber(query.sensorId), FormatDate(query.from),
                                   FormatDate(query.to), fetch, lenient)
  IN IF response.threw
       THEN [ threw |-> TRUE, error |-> response.error, annotations |-> <<>>,
              total |-> 0, requests |-> response.requests, query |-> query,
              params |-> AnnotationParams(query), lenient |-> lenient ]
     ELSE
       LET annotationsData == IF response.value.kind = "array"
                                THEN response.value.rows ELSE <<>>
           annotations == [n \in DOMAIN annotationsData |->
                             AnnotationOf(query.sensorId, annotationsData[n], n - 1)]
       IN [ threw |-> FALSE, error |-> "", annotations |-> annotations,
            total |-> Len(annotations),
            requests |-> response.requests, query |-> query,
            params |-> AnnotationParams(query), lenient |-> lenient ]

\* getAnnotations(query); query.limit is [given, n]
getAnnotations(query, fetch, lenient) ==
  LET response == getSensorHistory(ToNumber(query.sensorId), FormatDate(query.from),
                                   FormatDate(query.to), fetch, lenient)
  IN IF response.threw
       THEN [ threw |-> TRUE, error |-> response.error, annotations |-> <<>>,
              total |-> 0, requests |-> response.requests, query |-> query,
              params |-> AnnotationParams(query), lenient |-> lenient ]
     ELSE
       LET annotationsData == IF response.value.kind = "array"
                                THEN response.value.rows ELSE <<>>
           annotations == [n \in DOMAIN annotationsData |->
                             AnnotationOf(query.sensorId, annotationsData[n], n - 1)]
           limitedAnnotations ==
             IF query.limit.given /\ query.limit.n > 0
               THEN SubSeq(annotations, 1, Min(query.limit.n, Len(annotations)))
             ELSE annotations
       IN [ threw |-> FALSE, error |-> "", annotations |-> limitedAnnotations,
            total |-> Len(limitedAnnotations),
            requests |-> response.requests, query |-> query,
            params |-> AnnotationParams(query), lenient |-> lenient ]

(***************************************************************************)
(* datasource.ts: the streaming path and the merged response channel       *)
(***************************************************************************)
NoMeta ==
  [ custom |-> Undefined, streaming |-> Undefined, streamId |-> Undefined,
    preferredVisualisationType |-> Undefined ]

FrameWithMeta == [isNull |-> FALSE, hasMeta |-> TRUE, meta |-> [NoMeta EXCEPT !.custom = "x"]]
FrameNoMeta == [isNull |-> FALSE, hasMeta |-> FALSE, meta |-> NoMeta]
NullFrame == [isNull |-> TRUE, hasMeta |-> FALSE, meta |-> NoMeta]

\* what the live transport may push on a subscription: a response without
\* data, or a response with frames
StreamPayloads ==
  { [hasData |-> FALSE, data |-> <<>>],
    [hasData |-> TRUE, data |-> <<FrameNoMeta>>],
    [hasData |-> TRUE, data |-> <<NullFrame, FrameWithMeta>>] }

\* the body of frameData.forEach in the map operator
TagFrame(frame, streamId) ==
  IF ~frame.isNull /\ frame.hasMeta
    THEN [frame EXCEPT !.meta = [@ EXCEPT !.streaming = "true",
                                          !.streamId = streamId,
                                          !.preferredVisualisationType = "graph"]]
  ELSE frame

\* map((response) => ...): the batch forwarded for a pushed response
MapResponse(response, streamId) ==
  LET frameData == IF response.hasData THEN response.data ELSE <<>>
  IN [i \in 1..Len(frameData) |-> TagFrame(frameData[i], streamId)]

\* the observable built for one streaming target
StreamObservable(query) ==
  [ kind |-> "stream", streamId |-> getStreamId(query),
    path |-> "prtg-stream/" \o getStreamId(query),
    refId |-> query.refId, data |-> <<>> ]

\* the address handed to getDataStream for a streaming query of a request
\* with the given options.panelId (already converted with toString)
StreamAddress(query, optionsPanelId, r) ==
  [ scope |-> "ds", path |-> "prtg-stream/" \o getStreamId(query),
    data |-> [ query |-> query, streamId |-> getStreamId(query),
               panelId |-> optionsPanelId, queryId |-> query.refId,
               timeRange |-> r,
               cacheTime |-> query.cacheTime, updateMode |-> query.updateMode,
               bufferSize |-> query.bufferSize ] ]

\* a join that reports the failure of any fetch for the whole regular part
RegularObservableFailFast(results) ==
  IF \E i \in DOMAIN results : results[i].rejected \/ results[i].failed
    THEN [kind |-> "error", streamId |-> "", path |-> "", refId |-> "", data |-> <<>>]
  ELSE [ kind |-> "regular", streamId |-> "", path |-> "", refId |-> "",
         data |-> Flatten([i \in DOMAIN results |-> results[i].data]) ]

\* the observable built from the joined regular results
RegularObservable(results) ==
  IF \E i \in DOMAIN results : results[i].rejected
    THEN [kind |-> "error", streamId |-> "", path |-> "", refId |-> "", data |-> <<>>]
  ELSE [ kind |-> "regular", streamId |-> "", path |-> "", refId |-> "",
         data |-> Flatten([i \in DOMAIN results |-> results[i].data]) ]

EmptyObservable ==
  [kind |-> "empty", streamId |-> "", path |-> "", refId |-> "", data |-> <<>>]

\* a query that returns the merge of its observables even when it has none
ReturnedMergeOfNothing(obs) == obs

\* observables.length ? merge(...observables) : from([{ data: [] }])
Returned(obs) == IF Len(obs) > 0 THEN obs ELSE <<EmptyObservable>>

\* a teardown that leaves the inner subscriptions as they are
CloseNone(states) == states

\* rxjs merge, on error of one source: the output errors and every source
\* still subscribed is unsubscribed
CloseOpen(states) ==
  [i \in DOMAIN states |-> IF states[i] = "open" THEN "unsubscribed" ELSE states[i]]

\* a merge that never completes its output
CompleteNever(acc) == acc

\* rxjs merge: the output completes once every source has completed
CompleteIfAllDone(acc) ==
  IF acc.outState = "open" /\ \A i \in DOMAIN acc.srcState : acc.srcState[i] = "complete"
    THEN [acc EXCEPT !.outState = "complete"]
  ELSE acc

\* a relay that forwards only the responses that carry data
DeliverSkipEmpty(acc, obs, i, payload) ==
  [acc EXCEPT
     !.pushes = @ + 1,
     !.arrived[i] = Append(@, [id |-> acc.pushes + 1, response |-> payload]),
     !.output = IF payload.hasData
                  THEN Append(@, [src |-> i, id |-> acc.pushes + 1,
                                  data |-> MapResponse(payload, obs[i].streamId)])
                ELSE @]

\* a response pushed on the subscription of source i reaches the caller
Deliver(acc, obs, i, payload) ==
  [acc EXCEPT
     !.pushes = @ + 1,
     !.arrived[i] = Append(@, [id |-> acc.pushes + 1, response |-> payload]),
     !.output = Append(@, [src |-> i, id |-> acc.pushes + 1,
                           data |-> MapResponse(payload, obs[i].streamId)])]

RECURSIVE DeliverAll(_, _, _, _)
DeliverAll(acc, obs, i, payloads) ==
  IF payloads = <<>> THEN acc
  ELSE DeliverAll(Deliver(acc, obs, i, Head(payloads)), obs, i, Tail(payloads))

\* catchError -> throwError on source i, propagated by merge
FailSource(acc, i) ==
  [acc EXCEPT !.outState = "error",
              !.srcState = [CloseOpen(acc.srcState) EXCEPT ![i] = "error"]]

\* a subscription in which the regular source completes without emitting
SubscribeOneSilentRegular(acc, obs, i, sync) ==
  IF obs[i].kind \in {"regular", "empty"}
    THEN [acc EXCEPT !.srcState[i] = "complete"]
  ELSE IF obs[i].kind = "error"
    THEN [acc EXCEPT !.outState = "error",
                     !.srcState = [k \in DOMAIN acc.srcState |->
                                     IF k = i THEN "error"
                                     ELSE IF acc.srcState[k] = "open" THEN "unsubscribed"
                                     ELSE acc.srcState[k]]]
  ELSE [acc EXCEPT !.srcState[i] = "open"]

\* merge subscribes to source i; sync is what a stream source does while
\* it is being subscribed (responses replayed at once, an immediate error)
SubscribeOne(acc, obs, i, sync) ==
  IF obs[i].kind \in {"regular", "empty"}
    THEN [acc EXCEPT !.srcState[i] = "complete",
                     !.output = Append(@, [src |-> i, id |-> 0, data |-> obs[i].data])]
  ELSE IF obs[i].kind = "error"
    THEN FailSource(acc, i)
  ELSE
    LET opened == [acc EXCEPT !.srcState[i] = "open"]
        fed == DeliverAll(opened, obs, i, sync.payloads)
    IN IF sync.fails THEN FailSource(fed, i) ELSE fed

RECURSIVE SubscribeFrom(_, _, _, _)
SubscribeFrom(acc, obs, i, syncs) ==
  IF i > Len(obs) \/ acc.outState # "open" THEN acc
  ELSE SubscribeFrom(SubscribeOne(acc, obs, i, syncs[i]), obs, i + 1, syncs)

\* the caller subscribes to the returned channel
SubscribeAll(obs, syncs) ==
  CompleteIfAllDone(
    SubscribeFrom([ outState |-> "open",
                    srcState |-> [i \in DOMAIN obs |-> "idle"],
                    arrived |-> [i \in DOMAIN obs |-> <<>>],
                    output |-> <<>>, pushes |-> 0 ],
                  obs, 1, syncs))

(***************************************************************************)
(* The inputs of the model                                                 *)
(***************************************************************************)
RefIds == <<"A", "B", "C", "D">>
SensorIds == {"", "0", "42"}
IsStreamingValues == {Undefined, "true", "false"}

QueryOf(refId, queryType, isStreaming, sensorId) ==
  [DEFAULT_QUERY EXCEPT !.refId = refId, !.queryType = queryType,
                        !.isStreaming = isStreaming, !.sensorId = sensorId]

\* every kind of target: type, isStreaming and sensorId
AllShapes == QueryType \X IsStreamingValues \X SensorIds

\* a batch of an execution request: refIds are unique within a batch
BatchOf(n, f) == [i \in 1..n |-> QueryOf(RefIds[i], f[i][1], f[i][2], f[i][3])]

\* the ranges that start at 2024-01-01T00:00:00Z and last exactly 48 hours
\* (the end-to-end scenario) and 800 hours
Ranges ==
  { [from |-> MkDate(1704067200, 0), to |-> MkDate(1704067200 + 48 * 3600, 0)],
    [from |-> MkDate(1704067200, 0), to |-> MkDate(1704067200 + 800 * 3600, 0)] }

\* a range of six hours and a half second
ShortRange ==
  [from |-> MkDate(1704067200, 0), to |-> MkDate(1704067200 + 6 * 3600, 500)]

\* the kinds of target that behave differently in the merged channel: a
\* streaming target, a regular target that fetches a history, a regular
\* target whose sensor id is rejected, a streaming-flagged Raw target
MergeShapes ==
  { <<Metrics, "true", "42">>, <<Metrics, Undefined, "42">>,
    <<Metrics, "false", "0">>, <<"raw", "true", "42">> }

\* the dates handed to getSensorHistory by a direct caller: around every
\* threshold, at zero, before the start and far after it
RangeOffsets ==
  UNION { {h * 3600 - 1, h * 3600, h * 3600 + 1} : h \in {12, 24, 48, 72, 168, 336, 720} }
  \cup {-3600, 0, 1000 * 3600}

EndDates ==
  { MkDate(1704067200 + off, ms) : off \in RangeOffsets, ms \in {0, 1} }

ValidTime(s) == [kind |-> "valid", secs |-> s]
Num(n) == [type |-> "number", num |-> n, str |-> ""]
Str(t) == [type |-> "string", num |-> 0, str |-> t]

Rows1 ==
  << [datetime |-> ValidTime(1704067200),
      cells |-> <<[key |-> "value_", value |-> Num(5)]>>] >>

Rows2 ==
  << [datetime |-> ValidTime(1704067200),
      cells |-> <<[key |-> "ch1", value |-> Num(1)], [key |-> "ch2", value |-> Str("7")]>>],
     [datetime |-> ValidTime(1704067260),
      cells |-> <<[key |-> "ch1", value |-> Num(2)], [key |-> "ch2", value |-> Str("abc")]>>] >>

Body(channels, histdata) == [isNull |-> FALSE, channels |-> channels, histdata |-> histdata]
NullBody == [isNull |-> TRUE, channels |-> NoField, histdata |-> NoField]
Response(status, body) == [transport |-> "ok", status |-> status, body |-> body]

\* what the backend may answer to one history request
FetchOutcomes ==
  { [transport |-> "fail", status |-> 0, body |-> NullBody],
    Response(403, NullBody),
    Response(500, NullBody),
    Response(200, NullBody),
    Response(200, Body(NoField, NoField)),
    Response(200, Body(NoField, ArrayField(Rows1))),
    Response(200, Body(ArrayField(Rows2), NoField)) }

MergeFetchOutcomes ==
  { [transport |-> "fail", status |-> 0, body |-> NullBody],
    Response(200, Body(NoField, ArrayField(Rows1))),
    Response(200, Body(ArrayField(Rows2), NoField)) }

NoFetch == [transport |-> "none", status |-> 0, body |-> NullBody]

\* the datetime field of a history row: a text new Date reads, a text it
\* cannot read, no field at all, an empty text
DatetimeKinds == {"valid", "invalid", "absent", "empty"}

\* the channel keys a row carries besides datetime
CellKinds == {"a", "ab", "b"}

\* row i of a history: rows are one minute apart, every sample is
\* different from the samples of the other rows
RowOf(i, dt, cs) ==
  [ datetime |-> IF dt = "valid" THEN ValidTime(1704067200 + 60 * i)
                 ELSE [kind |-> dt, secs |-> 0],
    cells |-> CASE cs = "a" -> <<[key |-> "ch1", value |-> Num(i)]>>
                [] cs = "ab" -> <<[key |-> "ch1", value |-> Num(i)],
                                  [key |-> "ch2", value |-> Str("7")]>>
                [] cs = "b" -> <<[key |-> "ch2", value |-> Num(10 + i)]>> ]

\* the history of n rows whose i-th row has the shape f[i]
HistoryOf(n, f) == [i \in 1..n |-> RowOf(i, f[i][1], f[i][2])]

\* the values a caller passes for a group, a device or a sensor
Selectors == {"", Undefined, "g1"}

\* the sensor ids handed to the history fetch: empty, zero, a number, a text
HistorySensorIds == {"", "0", "42", "abc"}

\* decoded bodies of the table lookups: an object without any of the
\* fields, or with one field set
EmptyBody ==
  [ isNull |-> FALSE, kind |-> "emptyObject", groups |-> NoField, devices |-> NoField,
    sensors |-> NoField, channels |-> NoField, histdata |-> NoField ]
BodyWith(field, value) == [EmptyBody EXCEPT ![field] = value, !.kind = "object"]
NoBody == [EmptyBody EXCEPT !.isNull = TRUE, !.kind = "null"]
EmptyTextBody == [EmptyBody EXCEPT !.kind = "emptyText"]

Failed == [transport |-> "fail", status |-> 0, body |-> NoBody]
NoResponse == [transport |-> "empty", status |-> 0, body |-> NoBody]

\* what the backend may answer to a request that is not a 200
Refusals ==
  { Failed, NoResponse, Response(403, NoBody), Response(404, EmptyBody),
    Response(500, NoBody), Response(204, EmptyTextBody) }

\* what the backend may answer to the lookup of the given field
LookupOutcomes(field) ==
  Refusals \cup
  { Response(200, NoBody), Response(200, EmptyTextBody), Response(200, EmptyBody),
    Response(200, BodyWith(field, ArrayField(<<>>))),
    Response(200, BodyWith(field, ArrayField(Rows1))),
    Response(200, BodyWith(field, ArrayField(Rows2))),
    Response(200, BodyWith(field, ObjectField)) }

\* what the backend may answer to status.json
StatusOutcomes ==
  Refusals \cup
  { Response(200, NoBody), Response(200, EmptyTextBody), Response(200, EmptyBody),
    Response(200, BodyWith("groups", ObjectField)) }

\* the histories whose samples become events: sample i carries value_ = i,
\* its datetime is readable or absent
SampleOfHistory(i, dt) ==
  [ datetime |-> IF dt = "valid" THEN ValidTime(1704067200 + 60 * i)
                 ELSE [kind |-> dt, secs |-> 0],
    cells |-> <<[key |-> "value_", value |-> Num(i)]>> ]

SamplesOf(n, f) == [i \in 1..n |-> SampleOfHistory(i, f[i])]

\* the limit of an annotation query: none, zero, negative, below and above
\* the number of samples
NoLimit == [given |-> FALSE, n |-> 0]
Limits == {NoLimit} \cup {[given |-> TRUE, n |-> l] : l \in -1..(MaxRows + 1)}

AnnotationQuery(sensorId, limit) ==
  [sensorId |-> sensorId, from |-> ShortRange.from, to |-> ShortRange.to, limit |-> limit]

AnnotationQueryTo(sensorId, limit, to) ==
  [AnnotationQuery(sensorId, limit) EXCEPT !.to = to]

\* options.panelId?.toString() of an execution request
RequestPanelIds == {Undefined, "1", "2"}

\* the queries whose stream identifier is derived: every combination of
\* the four inputs of getStreamId, and a field it does not read
PanelIds == {Undefined, "1", "default"}
StreamRefIds == {"", "A", "B"}
StreamSensorIds == {"", "42"}
ChannelSelections ==
  { [channelArray |-> [isArray |-> FALSE, items |-> <<>>], channel |-> ""],
    [channelArray |-> [isArray |-> FALSE, items |-> <<>>], channel |-> "42"],
    [channelArray |-> [isArray |-> TRUE, items |-> <<>>], channel |-> "42"],
    [channelArray |-> [isArray |-> TRUE, items |-> <<"a", "b">>], channel |-> ""],
    [channelArray |-> [isArray |-> TRUE, items |-> <<"a-b">>], channel |-> ""] }
Devices == {"device", "d2"}

StreamQueryOf(panelId, refId, sensorId, selection, device) ==
  [DEFAULT_QUERY EXCEPT !.panelId = panelId, !.refId = refId, !.sensorId = sensorId,
                        !.channelArray = selection.channelArray,
                        !.channel = selection.channel,
                        !.device = device, !.isStreaming = "true"]

\* the regular Metrics target whose history is normalised
MetricsTarget == QueryOf("A", Metrics, Undefined, "42")

\* the same target with display-prefix flags and labels
NamedTarget(flags, labels) ==
  [MetricsTarget EXCEPT !.includeGroupName = flags[1], !.includeDeviceName = flags[2],
                        !.includeSensorName = flags[3],
                        !.group = labels[1], !.device = labels[2], !.sensor = labels[3]]

\* the values a history row may carry for a channel: numbers, texts that
\* start with a number, texts that do not, the empty text, null
NullValue == [type |-> "null", num |-> 0, str |-> ""]
ValueKinds == {Num(5), Str("7"), Str("3x"), Str("abc"), Str(""), NullValue}

\* a history of readable rows with one channel, row i holding vs[i]
ValuesHistory(n, vs) ==
  [i \in 1..n |-> [ datetime |-> ValidTime(1704067200 + 60 * i),
                    cells |-> <<[key |-> "value_", value |-> vs[i]]>> ]]

\* what a stream source may do while it is being subscribed
SyncBehaviours ==
  { [payloads |-> <<>>, fails |-> FALSE], [payloads |-> <<>>, fails |-> TRUE] }
  \cup { [payloads |-> <<p>>, fails |-> FALSE] : p \in StreamPayloads }

NoSync == [payloads |-> <<>>, fails |-> FALSE]

(***************************************************************************)
(* State                                                                   *)
(***************************************************************************)
VARIABLES
  pc,          \* "idle", "ready" (query resolved), "live" (caller subscribed)
  targets,     \* options.targets of the execution request
  range,       \* options.range
  fetches,     \* the backend's answer for each regular target
  results,     \* the resolved value of each regular target's promise
  requests,    \* the HTTP requests issued, in order
  observables, \* the observables array built by query
  srcState,    \* per returned source: idle, open, complete, error, unsubscribed
  arrived,     \* per returned source: the responses pushed on its subscription
  output,      \* the batches delivered to the caller, in order
  outState,    \* the returned channel: none, open, complete, error, unsubscribed
  pushes,      \* number of responses pushed by the transport so far
  history,     \* the outcome of a direct getSensorHistory call
  call,        \* the last call of another operation of the data source
  editor       \* the query editor: its query prop, prevQueryRef, the last edit

vars == << pc, targets, range, fetches, results, requests, observables,
           srcState, arrived, output, outState, pushes, history, call, editor >>

NoCall == [op |-> "none", log |-> <<>>]

\* the part of the query the editor's handlers of the model change
EditedQuery(queryType, includeGroupName) ==
  [queryType |-> queryType, includeGroupName |-> includeGroupName]

\* useRef<MyQuery | null>
RefTo(query) == [isNull |-> FALSE, value |-> query]
NullRef == [isNull |-> TRUE, value |-> EditedQuery(Metrics, FALSE)]

\* JSON.stringify of the query, or of null
Stringify(ref) ==
  IF ref.isNull THEN "null"
  ELSE "{\"queryType\":\"" \o ref.value.queryType \o "\",\"includeGroupName\":"
       \o (IF ref.value.includeGroupName THEN "true" ELSE "false") \o "}"

\* the editor after its first render: prevQueryRef is null, nothing edited
Mounted ==
  [ query |-> EditedQuery(Metrics, FALSE), prevQueryRef |-> NullRef,
    edits |-> 0, changed |-> FALSE, ran |-> FALSE ]

NoHistory == [threw |-> FALSE, error |-> "", value |-> NoField, requests |-> <<>>]

Init ==
  /\ pc = "idle"
  /\ targets = <<>>
  /\ range = [from |-> MkDate(0, 0), to |-> MkDate(0, 0)]
  /\ fetches = <<>>
  /\ results = <<>>
  /\ requests = <<>>
  /\ observables = <<>>
  /\ srcState = <<>>
  /\ arrived = <<>>
  /\ output = <<>>
  /\ outState = "none"
  /\ pushes = 0
  /\ history = NoHistory
  /\ call = NoCall
  /\ editor = Mounted

\* the target reaches getSensorHistory
CallsHistory(target) == target.queryType = Metrics /\ TruthyStr(target.sensorId)

\* the target's fetch reaches the backend: its sensor id is a number
IssuesRequest(target) ==
  /\ CallsHistory(target)
  /\ ~ToNumber(target.sensorId).nan
  /\ ToNumber(target.sensorId).n # 0

\* the rest of DataSource.query once every regular fetch has been answered:
\* the results are joined and the channel is returned
Resolve(ts, r, fs, lenient) ==
  /\ \E regular \in {RegularTargets(ts)}, streams \in {StreamingTargets(ts)} :
       \E res \in {[k \in DOMAIN regular |-> RegularResult(regular[k], r, fs[k], lenient)]} :
         /\ targets' = ts
         /\ range' = r
         /\ fetches' = fs
         /\ results' = res
         /\ requests' = Flatten([k \in DOMAIN res |-> res[k].requests])
         /\ observables' =
              [k \in DOMAIN streams |-> StreamObservable(streams[k])]
              \o (IF Len(regular) > 0 THEN <<RegularObservable(res)>> ELSE <<>>)
  /\ pc' = "ready"
  /\ UNCHANGED << srcState, arrived, output, outState, pushes, history, call, editor >>

\* DataSource.query(options), up to the returned (not yet subscribed) channel
Query(ts, r, fs, lenient) ==
  /\ pc = "idle"
  /\ Resolve(ts, r, fs, lenient)

\* DataSource.query(options) up to await Promise.all(promises): the stream
\* observables are built and pushed, the history requests are on their way
BeginQuery(ts, r) ==
  /\ pc = "idle"
  /\ \E regular \in {RegularTargets(ts)}, streams \in {StreamingTargets(ts)} :
       /\ \E k \in DOMAIN regular : IssuesRequest(regular[k])
       /\ targets' = ts
       /\ range' = r
       /\ requests' = Flatten([k \in DOMAIN regular |->
                                 RegularResult(regular[k], r, NoFetch, FALSE).requests])
       /\ observables' = [k \in DOMAIN streams |-> StreamObservable(streams[k])]
  /\ pc' = "awaiting"
  /\ UNCHANGED << fetches, results, srcState, arrived, output, outState, pushes,
                  history, call, editor >>

\* the backend has answered every pending history request
FetchesSettle(fs, lenient) ==
  /\ pc = "awaiting"
  /\ Resolve(targets, range, fs, lenient)

\* the caller subscribes to the returned channel
Subscribe(syncs) ==
  /\ pc = "ready"
  /\ LET acc == SubscribeAll(Returned(observables), syncs)
     IN /\ srcState' = acc.srcState
        /\ arrived' = acc.arrived
        /\ output' = acc.output
        /\ outState' = acc.outState
        /\ pushes' = acc.pushes
  /\ pc' = "live"
  /\ UNCHANGED << targets, range, fetches, results, requests, observables, history, call, editor >>

Acc == [ outState |-> outState, srcState |-> srcState, arrived |-> arrived,
         output |-> output, pushes |-> pushes ]

\* the transport pushes a response on the subscription of source i
StreamPush(i, payload) ==
  /\ pc = "live"
  /\ outState = "open"
  /\ i \in DOMAIN srcState
  /\ srcState[i] = "open"
  /\ pushes < MaxPushes
  /\ LET acc == Deliver(Acc, Returned(observables), i, payload)
     IN /\ arrived' = acc.arrived
        /\ output' = acc.output
        /\ pushes' = acc.pushes
  /\ UNCHANGED << pc, targets, range, fetches, results, requests, observables,
                  srcState, outState, history, call, editor >>

\* the transport reports an error on the subscription of source i
StreamError(i) ==
  /\ pc = "live"
  /\ outState = "open"
  /\ i \in DOMAIN srcState
  /\ srcState[i] = "open"
  /\ LET acc == FailSource(Acc, i)
     IN /\ srcState' = acc.srcState
        /\ outState' = acc.outState
  /\ UNCHANGED << pc, targets, range, fetches, results, requests, observables,
                  arrived, output, pushes, history, call, editor >>

\* the transport completes the subscription of source i
StreamComplete(i) ==
  /\ pc = "live"
  /\ outState = "open"
  /\ i \in DOMAIN srcState
  /\ srcState[i] = "open"
  /\ LET acc == CompleteIfAllDone([Acc EXCEPT !.srcState[i] = "complete"])
     IN /\ srcState' = acc.srcState
        /\ outState' = acc.outState
  /\ UNCHANGED << pc, targets, range, fetches, results, requests, observables,
                  arrived, output, pushes, history, call, editor >>

\* the caller discards its subscription to the returned channel
Unsubscribe ==
  /\ pc = "live"
  /\ outState = "open"
  /\ outState' = "unsubscribed"
  /\ srcState' = CloseOpen(srcState)
  /\ UNCHANGED << pc, targets, range, fetches, results, requests, observables,
                  arrived, output, pushes, history, call, editor >>

\* PrtgApi.getSensorHistory called directly (query editor, annotations)
GetSensorHistoryCall(sensorId, startDate, endDate, fetch, lenient) ==
  /\ pc = "idle"
  /\ LET hist == getSensorHistory(ToNumber(sensorId), startDate, endDate, fetch, lenient)
     IN /\ history' = hist
        /\ requests' = hist.requests
  /\ call' = [op |-> "getSensorHistory", selector |-> sensorId, fetch |-> fetch,
              result |-> NotCalled]
  /\ pc' = "called"
  /\ UNCHANGED << targets, range, fetches, results, observables,
                  srcState, arrived, output, outState, pushes, editor >>

\* the backend answers of a batch: one for every regular target whose
\* request reaches the backend
RECURSIVE FetchChoices(_, _)
FetchChoices(regular, outcomes) ==
  IF regular = <<>> THEN {<<>>}
  ELSE { <<o>> \o rest :
           o \in (IF IssuesRequest(Head(regular)) THEN outcomes ELSE {NoFetch}),
           rest \in FetchChoices(Tail(regular), outcomes) }

\* what every source does while it is subscribed: only a stream source
\* is driven by the transport
RECURSIVE SyncChoices(_)
SyncChoices(obs) ==
  IF obs = <<>> THEN {<<>>}
  ELSE { <<b>> \o rest :
           b \in (IF Head(obs).kind = "stream" THEN SyncBehaviours ELSE {NoSync}),
           rest \in SyncChoices(Tail(obs)) }

\* the host executes a request of the kinds that matter to the merge
ExecuteQuery ==
  /\ pc = "idle"
  /\ \E n \in 0..MaxTargets, lenient \in BOOLEAN :
       \E f \in [1..n -> MergeShapes] :
         \E ts \in {BatchOf(n, f)} :
           \E fs \in FetchChoices(RegularTargets(ts), MergeFetchOutcomes) :
             Query(ts, ShortRange, fs, lenient)

\* the host executes any request: any batch, range, backend answers, engine
ExecuteAnyQuery ==
  /\ pc = "idle"
  /\ \E n \in 0..MaxTargets, r \in Ranges, lenient \in BOOLEAN :
       \E f \in [1..n -> AllShapes] :
         \E ts \in {BatchOf(n, f)} :
           \E fs \in FetchChoices(RegularTargets(ts), FetchOutcomes) :
             Query(ts, r, fs, lenient)

\* the host executes one regular Metrics query and the backend answers
\* 200 with a history of up to MaxRows rows of any shape
ExecuteMetricsQuery ==
  /\ pc = "idle"
  /\ \E n \in 0..MaxRows :
       \E f \in [1..n -> DatetimeKinds \X CellKinds] :
         \E rows \in {HistoryOf(n, f)} :
           Query(<<MetricsTarget>>, ShortRange,
                 <<Response(200, Body(NoField, ArrayField(rows)))>>, FALSE)

\* the host executes one regular Metrics query with any display-prefix
\* flags and labels
ExecuteNamedQuery ==
  /\ pc = "idle"
  /\ \E flags \in BOOLEAN \X BOOLEAN \X BOOLEAN,
        labels \in {"", "G"} \X {"", "D"} \X {"", "S"} :
       Query(<<NamedTarget(flags, labels)>>, ShortRange,
             <<Response(200, Body(NoField, ArrayField(Rows2)))>>, FALSE)

\* the host executes one regular Metrics query whose history holds values
\* of every kind
ExecuteValuesQuery ==
  /\ pc = "idle"
  /\ \E n \in 1..MaxRows :
       \E vs \in [1..n -> ValueKinds] :
         Query(<<MetricsTarget>>, ShortRange,
               <<Response(200, Body(NoField, ArrayField(ValuesHistory(n, vs))))>>, FALSE)

\* a caller asks for a history: any sensor id, dates in the ISO format or
\* in the format DataSource.query produces
CallHistory ==
  /\ pc = "idle"
  /\ \E sensorId \in SensorIds, end \in EndDates, iso \in BOOLEAN, lenient \in BOOLEAN :
       \E fetch \in MergeFetchOutcomes :
         LET start == MkDate(1704067200, 0)
         IN IF iso
              THEN GetSensorHistoryCall(sensorId, toISOString(start), toISOString(end),
                                        fetch, lenient)
            ELSE GetSensorHistoryCall(sensorId, FormatDate(start), FormatDate(end),
                                      fetch, lenient)

\* getStreamId(query) is evaluated for a streaming query, in this or in a
\* later execution; the identifiers derived so far are kept
DeriveStreamId(query) ==
  /\ pc \in {"idle", "deriving"}
  /\ call.op \in {"none", "getStreamId"}
  /\ Len(call.log) < 2
  /\ call' = [op |-> "getStreamId",
              log |-> Append(call.log, [query |-> query, id |-> getStreamId(query)])]
  /\ pc' = "deriving"
  /\ UNCHANGED << targets, range, fetches, results, requests, observables,
                  srcState, arrived, output, outState, pushes, history, editor >>

\* a lookup or the connectivity check has answered its caller
Called(op, selector, fetch, result) ==
  /\ pc = "idle"
  /\ call' = [op |-> op, selector |-> selector, fetch |-> fetch, result |-> result]
  /\ requests' = result.requests
  /\ pc' = "called"
  /\ UNCHANGED << targets, range, fetches, results, observables,
                  srcState, arrived, output, outState, pushes, history, editor >>

GetGroups ==
  \E fetch \in LookupOutcomes("groups") :
    Called("getGroups", "", fetch, DataSource_getGroups(fetch))

GetDevices ==
  \E group \in Selectors, fetch \in LookupOutcomes("devices") :
    Called("getDevices", group, fetch, DataSource_getDevices(group, fetch))

GetSensors ==
  \E device \in Selectors, fetch \in LookupOutcomes("sensors") :
    Called("getSensors", device, fetch, DataSource_getSensors(device, fetch))

GetChannels ==
  \E sensorId \in Selectors, fetch \in LookupOutcomes("channels") :
    Called("getChannels", sensorId, fetch, DataSource_getChannels(sensorId, fetch))

TestDatasource ==
  \E fetch \in StatusOutcomes, rejectsWithError \in BOOLEAN :
    Called("testDatasource", "", fetch, testDatasource(fetch, rejectsWithError))

\* a caller asks for the history of any sensor id; the backend answers
\* anything
GetAnyHistory ==
  /\ pc = "idle"
  /\ \E sensorId \in HistorySensorIds, field \in {"histdata", "channels"} :
       \E fetch \in LookupOutcomes(field) :
         GetSensorHistoryCall(sensorId, FormatDate(ShortRange.from),
                              FormatDate(ShortRange.to), fetch, FALSE)

\* the host asks for the annotations of a sensor
GetAnnotations ==
  /\ pc = "idle"
  /\ \E sensorId \in {"0", "42"}, limit \in Limits, n \in 0..MaxRows :
       \E f \in [1..n -> {"valid", "absent"}] :
         \E fetch \in { Failed, Response(200, BodyWith("channels", ObjectField)),
                        Response(200, BodyWith("histdata", ArrayField(SamplesOf(n, f)))) } :
           Called("getAnnotations", sensorId, fetch,
                  getAnnotations(AnnotationQuery(sensorId, limit), fetch, FALSE))

\* the host asks for the annotations of a range of any length
GetAnnotationsOfRange ==
  /\ pc = "idle"
  /\ \E to \in EndDates, lenient \in BOOLEAN :
       \E fetch \in {Response(200, BodyWith("histdata", ArrayField(SamplesOf(1, <<"valid">>))))} :
         Called("getAnnotations", "42", fetch,
                getAnnotations(AnnotationQueryTo("42", NoLimit, to), fetch, lenient))

\* the stream set-up of query(options) for one streaming target of a
\* request with the given panel id; the addresses used so far are kept
AttachStream(query, optionsPanelId) ==
  /\ pc \in {"idle", "attaching"}
  /\ call.op \in {"none", "attach"}
  /\ Len(call.log) < 2
  /\ call' = [op |-> "attach",
              log |-> Append(call.log,
                             [query |-> query, panelId |-> optionsPanelId,
                              address |-> StreamAddress(query, optionsPanelId, ShortRange)])]
  /\ pc' = "attaching"
  /\ UNCHANGED << targets, range, fetches, results, requests, observables,
                  srcState, arrived, output, outState, pushes, history, editor >>

AttachAnyStream ==
  \E queryPanelId \in PanelIds, optionsPanelId \in RequestPanelIds,
     refId \in {"A", "B"} :
    AttachStream(StreamQueryOf(queryPanelId, refId, "42",
                               [channelArray |-> [isArray |-> TRUE, items |-> <<"a", "b">>],
                                channel |-> ""],
                               "device"),
                 optionsPanelId)

\* runQueryIfChanged as the handlers of one render call it: query is the
\* query prop of that render, the one the edit started from
RunsQuery(renderQuery, prevQueryRef) ==
  LET currentQuery == Stringify(RefTo(renderQuery))
      prevQuery == Stringify(prevQueryRef)
  IN currentQuery # prevQuery

\* an edit handler: onChange(newQuery), then runQueryIfChanged(); the host
\* renders the editor again with the new query
Edit(newQuery) ==
  /\ pc \in {"idle", "editing"}
  /\ editor.edits < MaxEdits
  /\ LET runs == RunsQuery(editor.query, editor.prevQueryRef)
     IN editor' = [ query |-> newQuery,
                    prevQueryRef |-> IF runs THEN RefTo(editor.query)
                                     ELSE editor.prevQueryRef,
                    edits |-> editor.edits + 1,
                    changed |-> newQuery # editor.query,
                    ran |-> runs ]
  /\ pc' = "editing"
  /\ UNCHANGED << targets, range, fetches, results, requests, observables,
                  srcState, arrived, output, outState, pushes, history, call >>

\* the query type select: any option, the selected one included
OnQueryTypeChange ==
  \E value \in QueryType : Edit([editor.query EXCEPT !.queryType = value])

\* the "include group name" switch
OnIncludeGroupName ==
  \E checked \in BOOLEAN : Edit([editor.query EXCEPT !.includeGroupName = checked])

DeriveAnyStreamId ==
  \E panelId \in PanelIds, refId \in StreamRefIds, sensorId \in StreamSensorIds,
     selection \in ChannelSelections, device \in Devices :
    DeriveStreamId(StreamQueryOf(panelId, refId, sensorId, selection, device))

\* the host subscribes; every stream source behaves as the transport decides
CallerSubscribes ==
  /\ pc = "ready"
  /\ \E syncs \in SyncChoices(Returned(observables)) : Subscribe(syncs)

Next ==
  \/ ExecuteQuery
  \/ CallerSubscribes
  \/ \E i \in DOMAIN srcState, payload \in StreamPayloads : StreamPush(i, payload)
  \/ \E i \in DOMAIN srcState : StreamError(i)
  \/ \E i \in DOMAIN srcState : StreamComplete(i)
  \/ Unsubscribe

Spec == Init /\ [][Next]_vars

\* the request/response side alone, over every kind of batch
NextQuery ==
  \/ ExecuteAnyQuery
  \/ CallHistory

SpecQuery == Init /\ [][NextQuery]_vars

\* the host executes a request whose history fetches take time
StartQuery ==
  /\ pc = "idle"
  /\ \E n \in 0..MaxTargets :
       \E f \in [1..n -> MergeShapes] :
         BeginQuery(BatchOf(n, f), ShortRange)

BackendAnswers ==
  /\ pc = "awaiting"
  /\ \E lenient \in BOOLEAN :
       \E fs \in FetchChoices(RegularTargets(targets), MergeFetchOutcomes) :
         FetchesSettle(fs, lenient)

\* the execution of a request with the time its fetches take
NextAwait ==
  \/ ExecuteQuery
  \/ StartQuery
  \/ BackendAnswers
  \/ CallerSubscribes
  \/ \E i \in DOMAIN srcState, payload \in StreamPayloads : StreamPush(i, payload)
  \/ \E i \in DOMAIN srcState : StreamError(i)
  \/ \E i \in DOMAIN srcState : StreamComplete(i)
  \/ Unsubscribe

SpecAwait == Init /\ [][NextAwait]_vars

\* the other operations of the data source and of its backend client
NextCalls ==
  \/ DeriveAnyStreamId
  \/ GetGroups
  \/ GetDevices
  \/ GetSensors
  \/ GetChannels
  \/ GetAnyHistory
  \/ TestDatasource
  \/ GetAnnotations
  \/ GetAnnotationsOfRange
  \/ AttachAnyStream

SpecCalls == Init /\ [][NextCalls]_vars

\* the edits of the query editor
NextEditor ==
  \/ OnQueryTypeChange
  \/ OnIncludeGroupName

SpecEditor == Init /\ [][NextEditor]_vars

\* the normalisation of one history response
NextNormalize ==
  \/ ExecuteMetricsQuery
  \/ ExecuteNamedQuery
  \/ ExecuteValuesQuery

SpecNormalize == Init /\ [][NextNormalize]_vars

(***************************************************************************)
(* Properties                                                              *)
(***************************************************************************)
CountOf(seq, Test(_)) == Len(SelectSeq(seq, Test))

\* the stream observables built by query (the regular one, if any, is last)
StreamSources == SelectSeq(observables, LAMBDA o : o.kind = "stream")

\* C1: every target of a batch lands in exactly one of the two sets, and in
\* the streaming set exactly when isStreaming is true and queryType is
\* Metrics: it has one stream observable and no regular result, or one
\* regular result and no stream observable.
C1_PartitionTotalDisjoint ==
  pc = "ready" =>
    /\ Len(StreamSources) + Len(results) = Len(targets)
    /\ \A i \in DOMAIN targets :
         LET t == targets[i]
             inStream == CountOf(StreamSources, LAMBDA o : o.refId = t.refId)
             inRegular == CountOf(results, LAMBDA x : x.refId = t.refId)
         IN IF t.isStreaming = "true" /\ t.queryType = "metrics"
              THEN inStream = 1 /\ inRegular = 0
            ELSE inStream = 0 /\ inRegular = 1

C1_Witness ==
  /\ pc = "ready"
  /\ Len(targets) = 2
  /\ targets[1].isStreaming = "true" /\ targets[1].queryType = "raw"
  /\ targets[2].isStreaming = "true" /\ targets[2].queryType = "metrics"
  /\ Len(results) = 1 /\ results[1].refId = targets[1].refId
  /\ Len(StreamSources) = 1 /\ StreamSources[1].refId = targets[2].refId

\* the buckets and thresholds as the specification lists them
BucketOfThreshold ==
  << <<720, "86400">>, <<336, "3600">>, <<168, "1800">>, <<72, "900">>,
     <<48, "600">>, <<24, "300">>, <<12, "120">> >>

AllBuckets == {"0", "120", "300", "600", "900", "1800", "3600", "86400"}

\* the bucket the policy gives a range of dsecs seconds and dms milliseconds
PolicyBucket(dsecs, dms) ==
  LET over == { i \in DOMAIN BucketOfThreshold :
                  \/ dsecs > BucketOfThreshold[i][1] * 3600
                  \/ dsecs = BucketOfThreshold[i][1] * 3600 /\ dms > 0 }
  IN IF over = {} THEN "0"
     ELSE BucketOfThreshold[CHOOSE i \in over : \A j \in over : i <= j][2]

\* the bucket right below each threshold
LowerBucket ==
  << <<12, "0">>, <<24, "120">>, <<48, "300">>, <<72, "600">>, <<168, "900">>,
     <<336, "1800">>, <<720, "3600">> >>

\* C2: the avg of a history request is always one of the eight buckets; for
\* dates the engine reads, it is the bucket of the descending strict
\* thresholds, a range equal to a threshold selects the lower bucket and a
\* zero or negative range selects 0.
C2_BucketSelection ==
  pc = "called" =>
    \A k \in DOMAIN requests :
      LET q == requests[k]
          dsecs == q.edate.secs - q.sdate.secs
          dms == q.edate.millis - q.sdate.millis
      IN /\ q.avg \in AllBuckets
         /\ IsISOFormat(q.sdate) /\ IsISOFormat(q.edate) =>
              /\ q.avg = PolicyBucket(dsecs, dms)
              /\ \A i \in DOMAIN LowerBucket :
                   dsecs = LowerBucket[i][1] * 3600 /\ dms = 0 => q.avg = LowerBucket[i][2]
              /\ (dsecs < 0 \/ (dsecs = 0 /\ dms = 0)) => q.avg = "0"

C2_Witness ==
  /\ pc = "called"
  /\ Len(requests) = 1
  /\ IsISOFormat(requests[1].sdate)
  /\ requests[1].edate.secs - requests[1].sdate.secs = 48 * 3600
  /\ requests[1].edate.millis = 0
  /\ requests[1].avg = "300"

\* C3: the avg of the history request of a regular Metrics query is the
\* bucket of the length of the request's time range.
C3_AvgFollowsRange ==
  pc = "ready" =>
    \A k \in DOMAIN requests :
      requests[k].avg = PolicyBucket(range.to.secs - range.from.secs,
                                     range.to.millis - range.from.millis)

\* the sources of the returned channel, and what the caller got from one
Sources == Returned(observables)
OutputFrom(i) == SelectSeq(output, LAMBDA e : e.src = i)
IdsOf(seq) == [k \in DOMAIN seq |-> seq[k].id]
RegularData == Flatten([k \in DOMAIN results |-> results[k].data])
IsStreamingQuery(t) == t.isStreaming = "true" /\ t.queryType = "metrics"
HasStreamingQuery == \E i \in DOMAIN targets : IsStreamingQuery(targets[i])
HasRegularQuery == \E i \in DOMAIN targets : ~IsStreamingQuery(targets[i])

C5_RegularFirst ==
  (pc = "live" /\ HasRegularQuery /\ HasStreamingQuery /\ Len(output) > 0) =>
    output[1].src = Len(Sources)

\* C5 as amended: once the caller's subscription is set up, the regular
\* result has been delivered, so every response a streaming subscription
\* pushes from then on is appended after it.
C5_LaterFramesFollowRegular ==
  [][ (pc = "live" /\ HasRegularQuery /\ HasStreamingQuery /\ output' # output) =>
        /\ \E k \in DOMAIN output : output[k].src = Len(Sources)
        /\ Len(output') = Len(output) + 1
        /\ SubSeq(output', 1, Len(output)) = output
        /\ output'[Len(output')].src # Len(Sources) ]_vars

C5_Witness ==
  /\ pc = "live"
  /\ HasRegularQuery /\ HasStreamingQuery
  /\ Len(output) = 2
  /\ output[1].src = Len(Sources)
  /\ output[2].src = 1 /\ Sources[1].kind = "stream"
  /\ Len(RegularData) > 0

\* C6: with no streaming query and at least one regular query, the returned
\* channel emits the regular result exactly once and completes.
C6_RegularOnlyCompletes ==
  (pc = "live" /\ HasRegularQuery /\ ~HasStreamingQuery) =>
    /\ outState = "complete"
    /\ Len(output) = 1
    /\ output[1].data = RegularData

C6_Witness ==
  /\ pc = "live"
  /\ Len(targets) = 2
  /\ ~HasStreamingQuery
  /\ outState = "complete"
  /\ Len(output) = 1
  /\ Len(output[1].data) > 0

\* C7: an error on one streaming subscription ends that subscription alone:
\* the returned channel does not fail, no sibling subscription is closed,
\* and the regular result is delivered.
C7_StreamErrorIsolated ==
  pc = "live" =>
    \A i \in DOMAIN Sources :
      (Sources[i].kind = "stream" /\ srcState[i] = "error") =>
        /\ outState # "error"
        /\ \A j \in DOMAIN Sources : srcState[j] # "unsubscribed"
        /\ HasRegularQuery => Len(OutputFrom(Len(Sources))) = 1

\* the history fetch of the k-th regular target fails: the sensor id is
\* rejected, the transport fails, the status is not 200, or there is no body
FetchFails(k) ==
  LET t == RegularTargets(targets)[k]
  IN /\ t.queryType = "metrics" /\ t.sensorId # ""
     /\ \/ t.sensorId \notin {"42", "7"}
        \/ fetches[k].transport # "ok"
        \/ fetches[k].status # 200
        \/ fetches[k].body.isNull

SeriesOf(data, refId) == SelectSeq(data, LAMBDA f : f.refId = refId)

\* C8: a failed history fetch of one regular query gives an empty result
\* for that refId alone: the regular result is a data batch, never an error,
\* and holds exactly the series of the queries whose fetch did not fail.
C8_FailureIsolatedPerQuery ==
  (pc = "ready" /\ Len(results) > 0) =>
    LET reg == observables[Len(observables)]
    IN /\ reg.kind = "regular"
       /\ \A k \in DOMAIN results :
            /\ results[k].failed <=> FetchFails(k)
            /\ SeriesOf(reg.data, results[k].refId) =
                 (IF FetchFails(k) THEN <<>> ELSE results[k].data)
       /\ \A n \in DOMAIN reg.data :
            \E k \in DOMAIN results :
              ~FetchFails(k) /\ results[k].refId = reg.data[n].refId

C8_Witness ==
  /\ pc = "ready"
  /\ Len(results) = 2
  /\ FetchFails(1) /\ fetches[1].transport = "fail"
  /\ ~FetchFails(2) /\ Len(results[2].data) = 2
  /\ observables[Len(observables)].kind = "regular"
  /\ observables[Len(observables)].data = results[2].data

\* C9 as stated: if any regular history fetch fails, the regular part of
\* the response is that failure instead of a data batch.
C9_AllOrNothing ==
  (pc = "ready" /\ \E k \in DOMAIN results : FetchFails(k)) =>
    observables[Len(observables)].kind = "error"

\* C9 as amended: the regular results are joined by one wait that never
\* fails: with a failed fetch in the batch the regular part is still a data
\* batch, every streaming query has its subscription, and none of them is
\* closed by the failed fetch.
C9_JoinNeverFails ==
  (pc \in {"ready", "live"} /\ \E k \in DOMAIN results : FetchFails(k)) =>
    /\ observables[Len(observables)].kind = "regular"
    /\ \A i \in DOMAIN targets :
         IsStreamingQuery(targets[i]) =>
           \E n \in DOMAIN observables :
             observables[n].kind = "stream" /\ observables[n].refId = targets[i].refId
    /\ (pc = "live" /\ outState = "open") =>
         /\ Len(OutputFrom(Len(Sources))) = 1
         /\ \A n \in DOMAIN Sources :
              Sources[n].kind = "stream" => srcState[n] \in {"open", "complete"}

C9_Witness ==
  /\ pc = "live"
  /\ outState = "open"
  /\ Len(results) = 1 /\ FetchFails(1) /\ fetches[1].transport = "fail"
  /\ Len(Sources) = 2
  /\ srcState[1] = "open"
  /\ Len(arrived[1]) > 0
  /\ Len(OutputFrom(2)) = 1

\* C10: every frame forwarded from a streaming subscription carries
\* streaming = true, the stream identifier of its query and the graph hint.
C10_AllFramesTagged ==
  \A n \in DOMAIN output :
    Sources[output[n].src].kind = "stream" =>
      \A k \in DOMAIN output[n].data :
        LET frame == output[n].data[k]
        IN ~frame.isNull =>
             /\ frame.meta.streaming = "true"
             /\ frame.meta.streamId = Sources[output[n].src].streamId
             /\ frame.meta.preferredVisualisationType = "graph"

\* the rows the backend answered to the normalised query, and its series
HistoryRows == fetches[1].body.histdata.rows
Series == results[1].data

\* the rows whose timestamp field is present and readable
ReadableRows == SelectSeq(HistoryRows, LAMBDA row : row.datetime.kind = "valid")

KeysOfRow(row) == {row.cells[c].key : c \in DOMAIN row.cells}

\* the number a row gives for a channel key
SampleOf(row, key) ==
  CoerceValue(row.cells[CHOOSE c \in DOMAIN row.cells : row.cells[c].key = key].value)

\* C11 as stated: a row whose timestamp field is absent or unreadable adds
\* nothing: the time axis holds exactly the instants of the readable rows
\* and no series has more samples than there are readable rows.
C11_UnreadableRowsSkipped ==
  pc = "ready" =>
    \A k \in DOMAIN Series :
      /\ Series[k].times = [i \in DOMAIN ReadableRows |-> RowTime(ReadableRows[i])]
      /\ Len(Series[k].values) <= Len(ReadableRows)

\* C12 as stated: all series of a query share one time axis, every value
\* sequence is as long as the axis, and the value at index i is the sample
\* of the row at index i of the axis.
C12_SeriesAlignedWithAxis ==
  (pc = "ready" /\ targets[1] = MetricsTarget) =>
    LET kept == SelectSeq(HistoryRows, HasDatetime)
    IN \A k \in DOMAIN Series :
         /\ Series[k].times = Series[1].times
         /\ Len(Series[k].times) = Len(kept)
         /\ Len(Series[k].values) = Len(Series[k].times)
         /\ \A i \in DOMAIN Series[k].values :
              /\ Series[k].name \in KeysOfRow(kept[i])
              /\ Series[k].values[i] = SampleOf(kept[i], Series[k].name)

\* C13: an empty history gives no series; a history in which every row
\* has a readable timestamp and the same keys gives one series per key,
\* each as long as the history, its values in the order of the rows.
C13_UniformRowsOneSeriesPerKey ==
  pc = "ready" =>
    /\ HistoryRows = <<>> => Series = <<>>
    /\ ( /\ HistoryRows # <<>>
         /\ \A i \in DOMAIN HistoryRows :
              /\ HistoryRows[i].datetime.kind = "valid"
              /\ KeysOfRow(HistoryRows[i]) = KeysOfRow(HistoryRows[1]) )
       => /\ Len(Series) = Cardinality(KeysOfRow(HistoryRows[1]))
          /\ \A key \in KeysOfRow(HistoryRows[1]) :
               \E k \in DOMAIN Series :
                 /\ Series[k].name = NamePrefix(targets[1]) \o key
                 /\ Series[k].times = [i \in DOMAIN HistoryRows |-> RowTime(HistoryRows[i])]
                 /\ Series[k].values =
                      [i \in DOMAIN HistoryRows |-> SampleOf(HistoryRows[i], key)]

C13_Witness ==
  /\ pc = "ready"
  /\ Len(HistoryRows) = 3
  /\ \A i \in DOMAIN HistoryRows :
       HistoryRows[i].datetime.kind = "valid" /\ KeysOfRow(HistoryRows[i]) = {"ch1", "ch2"}
  /\ Len(Series) = 2
  /\ Series[1].values = <<1, 2, 3>>
  /\ Series[2].values = <<7, 7, 7>>

\* the inputs of the derivation: panelId, refId, sensorId and the channel
\* selection (channelArray when it is an array, else channel)
IdInputs(query) ==
  [ panelId |-> query.panelId, refId |-> query.refId, sensorId |-> query.sensorId,
    isArray |-> query.channelArray.isArray,
    items |-> IF query.channelArray.isArray THEN query.channelArray.items ELSE <<>>,
    channel |-> IF query.channelArray.isArray THEN "" ELSE OrStr(query.channel, "") ]

\* the non-empty components in order, the literal default for no panelId
ExpectedComponents(query) ==
  LET in == IdInputs(query)
  IN << IF in.panelId = Undefined THEN "default" ELSE in.panelId,
        IF in.refId = "" THEN "A" ELSE in.refId,
        in.sensorId,
        IF in.isArray THEN Join(in.items, "-") ELSE in.channel >>

\* C14: the identifier depends on the four inputs only: two derivations
\* with the same inputs give the same text, whatever else the queries hold
\* and whatever was derived before; the text is the non-empty components
\* joined by "_", with "default" in the place of an undefined panelId.
C14_StreamIdDeterministic ==
  call.op = "getStreamId" =>
    /\ \A i, j \in DOMAIN call.log :
         IdInputs(call.log[i].query) = IdInputs(call.log[j].query)
           => call.log[i].id = call.log[j].id
    /\ \A i \in DOMAIN call.log :
         call.log[i].id =
           Join(SelectSeq(ExpectedComponents(call.log[i].query), LAMBDA c : c # ""), "_")

C14_Witness ==
  /\ call.op = "getStreamId"
  /\ Len(call.log) = 2
  /\ call.log[1].query.panelId = Undefined
  /\ call.log[1].query.sensorId = ""
  /\ call.log[1].query # call.log[2].query
  /\ IdInputs(call.log[1].query) = IdInputs(call.log[2].query)
  /\ call.log[1].id = "default_B_a-b"
  /\ call.log[2].id = "default_B_a-b"

\* C15 as stated: two queries that differ in panelId, refId, sensorId or
\* channel selection derive different identifiers.
C15_StreamIdsNeverCollide ==
  call.op = "getStreamId" =>
    \A i, j \in DOMAIN call.log :
      IdInputs(call.log[i].query) # IdInputs(call.log[j].query)
        => call.log[i].id # call.log[j].id

\* the operations that end in a fetch of PrtgApi, the array field each
\* of them reads, and what the client answered
TableOps == {"getGroups", "getDevices", "getSensors", "getChannels"}

FieldOfOp(op) ==
  CASE op = "getGroups" -> "groups"
    [] op = "getDevices" -> "devices"
    [] op = "getSensors" -> "sensors"
    [] op = "getChannels" -> "channels"

ApiAnswer == IF call.op = "getSensorHistory" THEN history ELSE call.result.api

\* the call went as far as the HTTP request
RequestIssued == pc = "called" /\ requests # <<>>

Answered200 == call.fetch.transport = "ok" /\ call.fetch.status = 200

\* the array field of the decoded body, an empty sequence without it
ArrayFieldOrEmpty(body, field) ==
  IF ~body.isNull /\ FieldTruthy(body[field]) THEN body[field] ELSE ArrayField(<<>>)

\* C16 as stated: on a 200 answer every table/history fetch returns the
\* array field of the body, and an empty sequence (no error) when the
\* field is missing or the body is empty or null.
C16_ArrayFieldOrEmpty ==
  (RequestIssued /\ Answered200 /\ call.op \in TableOps \cup {"getSensorHistory"}) =>
    /\ ~ApiAnswer.threw
    /\ ApiAnswer.value =
         (IF call.op \in TableOps
            THEN ArrayFieldOrEmpty(call.fetch.body, FieldOfOp(call.op))
          ELSE IF ~call.fetch.body.isNull /\ FieldTruthy(call.fetch.body.channels)
            THEN call.fetch.body.channels
          ELSE ArrayFieldOrEmpty(call.fetch.body, "histdata"))

\* C17: a request returns the body only for status 200; a 403 fails with
\* the access-denied message, any other status with the unexpected-status
\* message, and a failed transport is passed on as a failure.
C17_OnlyStatus200Returns ==
  (RequestIssued /\ call.op \in TableOps \cup {"getSensorHistory", "testDatasource"}) =>
    /\ call.fetch.transport = "fail" =>
         ApiAnswer.threw /\ ApiAnswer.error = "transport"
    /\ (call.fetch.transport = "ok" /\ call.fetch.status = 403) =>
         /\ ApiAnswer.threw
         /\ ApiAnswer.error = "Access denied: please verify API token and permissions"
    /\ (call.fetch.transport = "ok" /\ call.fetch.status \notin {200, 403}) =>
         /\ ApiAnswer.threw
         /\ ApiAnswer.error = "Unexpected status code: " \o ToString(call.fetch.status)
    /\ ~ApiAnswer.threw => Answered200
    /\ (call.op = "testDatasource" /\ Answered200) =>
         ~ApiAnswer.threw /\ ApiAnswer.value = call.fetch.body

C17_Witness ==
  /\ RequestIssued
  /\ call.op = "testDatasource"
  /\ call.fetch.transport = "ok" /\ call.fetch.status = 204
  /\ ApiAnswer.threw
  /\ ApiAnswer.error = "Unexpected status code: 204"

\* C18: a lookup without its selector, or a history fetch whose sensor id
\* is empty, zero or not a number, fails with the validation error and no
\* HTTP request is issued.
C18_ValidationBeforeRequest ==
  pc = "called" =>
    /\ (call.op \in {"getDevices", "getSensors", "getChannels"}
         /\ ~TruthyStr(call.selector)) =>
         /\ call.result.threw
         /\ call.result.error =
              (CASE call.op = "getDevices" -> "group is required"
                 [] call.op = "getSensors" -> "device is required"
                 [] call.op = "getChannels" -> "sensorId is required")
         /\ requests = <<>>
    /\ (call.op = "getSensorHistory" /\ call.selector \in {"", "0", "abc"}) =>
         /\ history.threw
         /\ history.error = "sensorId parameter is required"
         /\ requests = <<>>

C18_Witness ==
  /\ pc = "called"
  /\ call.op = "getChannels"
  /\ call.selector = ""
  /\ call.fetch.transport = "ok" /\ call.fetch.status = 200
  /\ call.result.threw
  /\ requests = <<>>

\* C19: the connectivity check always resolves to a record with status
\* success or error and a message; success only for a 200 answer with a
\* body (a decoded body that is not null and not the empty text).
C19_TestDatasourceNeverFails ==
  (pc = "called" /\ call.op = "testDatasource") =>
    /\ ~call.result.threw
    /\ call.result.status \in {"success", "error"}
    /\ call.result.message # ""
    /\ call.result.status = "success" =>
         /\ Answered200
         /\ ~call.fetch.body.isNull
         /\ call.fetch.body.kind # "emptyText"

C19_Witness ==
  /\ pc = "called"
  /\ call.op = "testDatasource"
  /\ Answered200
  /\ call.fetch.body.isNull
  /\ call.result.status = "error"
  /\ call.result.message = "Failed to connect to PRTG Server"

\* the samples the history fetch returned to getAnnotations, and the
\* events made of the first n of them
Samples ==
  IF ~call.fetch.body.isNull /\ call.fetch.body.histdata.kind = "array"
    THEN call.fetch.body.histdata.rows ELSE <<>>

EventsOfFirst(n) ==
  [i \in 1..n |-> AnnotationOf(call.selector, Samples[i], i - 1)]

AnnotationsReturned ==
  pc = "called" /\ call.op = "getAnnotations" /\ ~call.result.threw

\* C20 as stated: the events are the samples in order, timeEnd = time;
\* with a limit exactly the first min(limit, n) events are returned, with
\* no limit all n, and total is the number of events returned.
C20_LimitTruncates ==
  AnnotationsReturned =>
    LET limit == call.result.query.limit
        expected == IF limit.given /\ limit.n >= 0
                      THEN Min(limit.n, Len(Samples)) ELSE Len(Samples)
    IN /\ call.result.annotations = EventsOfFirst(expected)
       /\ call.result.total = Len(call.result.annotations)

\* C20 as amended: a limit truncates only when it is positive; with no
\* limit, or a limit of zero or below, all n events are returned.
C20_PositiveLimitTruncates ==
  AnnotationsReturned =>
    LET limit == call.result.query.limit
        expected == IF limit.given /\ limit.n > 0
                      THEN Min(limit.n, Len(Samples)) ELSE Len(Samples)
    IN /\ call.result.annotations = EventsOfFirst(expected)
       /\ \A i \in DOMAIN call.result.annotations :
            call.result.annotations[i].timeEnd = call.result.annotations[i].time
       /\ call.result.total = Len(call.result.annotations)

C20_Witness ==
  /\ AnnotationsReturned
  /\ Len(Samples) = 3
  /\ call.result.query.limit = [given |-> TRUE, n |-> 2]
  /\ Len(call.result.annotations) = 2
  /\ call.result.annotations[1].id = "uid:42_0"
  /\ call.result.annotations[2].id = "uid:42_1"
  /\ call.result.annotations[2].data = Num(2)
  /\ call.result.total = 2

\* C21: once the caller has discarded its subscription, every streaming
\* subscription of the batch is closed (none is open) and nothing more is
\* delivered to the caller or taken from the transport.
C21_UnsubscribeClosesAll ==
  [][ /\ outState' = "unsubscribed" =>
           \A i \in DOMAIN srcState' : srcState'[i] # "open"
      /\ outState = "unsubscribed" =>
           output' = output /\ arrived' = arrived /\ srcState' = srcState ]_vars

C21_Witness ==
  /\ pc = "live"
  /\ outState = "unsubscribed"
  /\ Len(Sources) = 2
  /\ srcState = <<"unsubscribed", "unsubscribed">>
  /\ Len(arrived[1]) > 0 /\ Len(arrived[2]) > 0
  /\ Len(output) = 2

\* C22 as stated: no channel waits for another: a streaming channel of
\* the batch is never held back by regular fetches that have not finished,
\* and while the merged channel is open every frame that arrived on a
\* streaming channel has been relayed, whatever the other channels did.
C22_NoChannelWaitsForAnother ==
  /\ pc = "awaiting" => StreamSources = <<>>
  /\ (pc = "live" /\ outState = "open") =>
       \A i \in DOMAIN Sources :
         Sources[i].kind = "stream" =>
           /\ Len(OutputFrom(i)) = Len(arrived[i])
           /\ srcState[i] \in {"open", "complete"}

\* the label a flag selects, followed by the separator
LabelPart(flag, label) == IF flag /\ label # "" THEN label \o " - " ELSE ""

AllKeys == UNION {KeysOfRow(HistoryRows[i]) : i \in DOMAIN HistoryRows}

\* C23: the name of every series is the raw key preceded by the group,
\* device and sensor labels, in that order, each followed by " - " and each
\* only when its flag is set and the label is not empty.
C23_SeriesNamePrefix ==
  pc = "ready" =>
    LET t == targets[1]
        prefix == LabelPart(t.includeGroupName, t.group)
                  \o LabelPart(t.includeDeviceName, t.device)
                  \o LabelPart(t.includeSensorName, t.sensor)
    IN /\ \A k \in DOMAIN Series : \E key \in AllKeys : Series[k].name = prefix \o key
       /\ \A j, k \in DOMAIN Series : Series[j].name = Series[k].name => j = k

C23_Witness ==
  /\ pc = "ready"
  /\ targets[1].includeGroupName /\ targets[1].group = "G"
  /\ targets[1].includeDeviceName /\ targets[1].device = ""
  /\ targets[1].includeSensorName /\ targets[1].sensor = "S"
  /\ Len(Series) = 2
  /\ Series[1].name = "G - S - ch1"
  /\ Series[2].name = "G - S - ch2"

\* the number the policy gives for a raw value
ExpectedNumber(v) ==
  CASE v.type = "number" -> v.num
    [] v.type = "string" /\ v.str = "7" -> 7
    [] v.type = "string" /\ v.str = "3x" -> 3
    [] OTHER -> 0

\* the accepted rows that carry the key
AcceptedWith(key) ==
  SelectSeq(HistoryRows, LAMBDA row : HasDatetime(row) /\ key \in KeysOfRow(row))

RawOf(row, key) ==
  row.cells[CHOOSE c \in DOMAIN row.cells : row.cells[c].key = key].value

\* C24: every value of an accepted row becomes a number: a number stays,
\* a text that parses gives its number, anything else gives 0; no value is
\* dropped and the query does not fail.
C24_ValuesCoerced ==
  (pc = "ready" /\ targets[1] = MetricsTarget) =>
    /\ ~results[1].failed
    /\ \A key \in AllKeys :
         AcceptedWith(key) # <<>> =>
           \E k \in DOMAIN Series :
             /\ Series[k].name = key
             /\ Series[k].values =
                  [i \in DOMAIN AcceptedWith(key) |->
                     ExpectedNumber(RawOf(AcceptedWith(key)[i], key))]

C24_Witness ==
  /\ pc = "ready"
  /\ Len(HistoryRows) = 3
  /\ AllKeys = {"value_"}
  /\ RawOf(HistoryRows[1], "value_") = Num(5)
  /\ RawOf(HistoryRows[2], "value_") = Str("3x")
  /\ RawOf(HistoryRows[3], "value_") = NullValue
  /\ Len(Series) = 1
  /\ Series[1].values = <<5, 3, 0>>

\* the request the Metrics path sends for the sensor and range of the
\* annotation query, on the same engine
MetricsPathRequests ==
  RegularResult(QueryOf("A", Metrics, Undefined, call.selector),
                [from |-> call.result.query.from, to |-> call.result.query.to],
                call.fetch, call.result.lenient).requests

\* the events of the samples the Metrics normalisation accepts
AcceptedEvents ==
  { AnnotationOf(call.selector, Samples[j], j - 1) :
      j \in {i \in DOMAIN Samples : HasDatetime(Samples[i])} }

\* C25 as stated: getAnnotations sends the avg the Metrics path sends for
\* the same sensor and range, and every event comes from a row the
\* Metrics normalisation accepts.
C25_AnnotationsAsMetricsPath ==
  AnnotationsReturned =>
    /\ requests[1].avg = MetricsPathRequests[1].avg
    /\ \A i \in DOMAIN call.result.annotations :
         call.result.annotations[i] \in AcceptedEvents

\* C27: for every range the avg computed in getAnnotations is the bucket
\* getSensorHistory selects when it is given the same range.
C27_SameThresholds ==
  (pc = "called" /\ call.op = "getAnnotations") =>
    LET q == call.result.query
        api == getSensorHistory(ToNumber("42"), toISOString(q.from), toISOString(q.to),
                                call.fetch, call.result.lenient)
    IN call.result.params.avg = api.requests[1].avg

C27_Witness ==
  /\ pc = "called"
  /\ call.op = "getAnnotations"
  /\ call.result.query.to = MkDate(1704067200 + 336 * 3600 + 1, 0)
  /\ call.result.params.avg = "3600"
  /\ ~call.result.lenient
  /\ requests[1].avg = "0"

\* C26 as stated: the same query attached for two requests with
\* different panel identifiers gets two different stream paths.
C26_PathFollowsRequestPanel ==
  call.op = "attach" =>
    \A i, j \in DOMAIN call.log :
      (call.log[i].query = call.log[j].query /\ call.log[i].panelId # call.log[j].panelId)
        => call.log[i].address.path # call.log[j].address.path

\* the regular targets of the batch, in the order of their results
RegularOfBatch == RegularTargets(targets)

\* a target whose type is Metrics and whose sensorId is a non-empty text
MetricsWithSensor(target) ==
  target.queryType = "metrics" /\ target.sensorId \notin {"", Undefined}

\* C28: a regular-path query issues a history request only when its type is
\* Metrics and its sensorId is non-empty; every other regular-path query,
\* with or without isStreaming, issues no request and contributes no series.
C28_OnlyMetricsWithSensorFetches ==
  pc = "ready" =>
    \A k \in DOMAIN results :
      /\ results[k].requests # <<>> => MetricsWithSensor(RegularOfBatch[k])
      /\ ~MetricsWithSensor(RegularOfBatch[k]) =>
            (results[k].requests = <<>> /\ results[k].data = <<>>)

\* a Raw query flagged as streaming, with a sensor, next to a Metrics query
\* whose history came back with rows
C28_Witness ==
  /\ pc = "ready"
  /\ Len(results) = 2
  /\ RegularOfBatch[1].queryType = "raw"
  /\ RegularOfBatch[1].isStreaming = "true"
  /\ RegularOfBatch[1].sensorId = "42"
  /\ results[1].requests = <<>>
  /\ results[1].data = <<>>
  /\ MetricsWithSensor(RegularOfBatch[2])
  /\ Len(results[2].requests) = 1
  /\ results[2].data # <<>>

\* C29: for a batch with no targets, query opens no subscription and issues
\* no backend request, and its channel emits exactly one batch with an empty
\* series list and then completes.
C29_EmptyBatchOneEmptyResponse ==
  (targets = <<>> /\ pc \in {"ready", "live"}) =>
    /\ requests = <<>>
    /\ results = <<>>
    /\ \A i \in DOMAIN observables : observables[i].kind # "stream"
    /\ pc = "live" =>
         /\ Len(output) = 1
         /\ output[1].data = <<>>
         /\ outState = "complete"
         /\ \A i \in DOMAIN srcState : srcState[i] # "open"
         /\ pushes = 0

C29_Witness ==
  /\ targets = <<>>
  /\ pc = "live"
  /\ observables = <<>>
  /\ Len(output) = 1
  /\ outState = "complete"

\* C30 as stated: every edit that changes the query results in a call to
\* onRunQuery for that edit, whatever edits preceded it.
C30_EveryChangeRunsQuery ==
  (pc = "editing" /\ editor.changed) => editor.ran

====
